---- MODULE Spec2Model ----
(***************************************************************************)
(* The etcd-backed IPAM store of plugins/ipam/host-etcd/backend/etcd:      *)
(* one key per reserved address, one marker key per range, and one         *)
(* session-bound mutex shared by every Store of the cluster.  Each store   *)
(* request (Put, Get, Delete, the mutex's transaction) is one step, so the *)
(* gap between the two Puts of Reserve and between the scan and the        *)
(* deletes of ReleaseByID is visible to the other Stores.                  *)
(***************************************************************************)
EXTENDS Integers, Sequences, FiniteSets, TLC

\* ------------------------------------------------------------- bounds
NumStores == 2      \* Store objects (processes) sharing the etcd cluster
NumAddrs == 2       \* distinct addresses the allocator probes
MaxOps == 3         \* Reserve/LastReservedIP/Release/ReleaseByID calls in a run

Stores == 1..NumStores
Addrs == 1..NumAddrs
\* the Stores that issue data calls; every Store takes part in the mutex
Callers == {1, 2}

\* ------------------------------------------------------------- data
\* Text is a tuple of one-character strings or of one opaque token.
NoVal == <<"<absent>">>

\* container ids as the caller passes them: one of them carries whitespace
a_id == <<"a">>
b_id == <<" ", "b", " ">>
IDs == {a_id, b_id}

Ranges == {<<"0">>, <<"1">>}

\* net.IP: a byte slice of length 4 or 16 (or nil, length 0)
NilIP == [len |-> 0, a |-> 0]
\* the allocator hands out 4-byte and 16-byte forms alike
IPs == {[len |-> IF a % 2 = 1 THEN 4 ELSE 16, a |-> a] : a \in Addrs}

\* net.IP.String: both forms of an IPv4 address print the same dotted text
IPString(ip) == IF ip.len = 0 THEN <<"<nil>">> ELSE <<"10.0.0." \o ToString(ip.a)>>

\* net.ParseIP: the 16-byte form of a dotted IPv4 text, nil for anything else
ParseIP(txt) ==
    IF \E a \in Addrs : txt = <<"10.0.0." \o ToString(a)>>
    THEN [len |-> 16, a |-> CHOOSE a \in Addrs : txt = <<"10.0.0." \o ToString(a)>>]
    ELSE NilIP

\* net.IP.To16, the form ParseIP yields
To16(ip) == IF ip.len = 0 THEN NilIP ELSE [len |-> 16, a |-> ip.a]

RECURSIVE TrimLeft(_)
TrimLeft(str) ==
    IF str # <<>> /\ Head(str) = " " THEN TrimLeft(Tail(str)) ELSE str

RECURSIVE TrimRight(_)
TrimRight(str) ==
    IF str # <<>> /\ str[Len(str)] = " "
    THEN TrimRight(SubSeq(str, 1, Len(str) - 1))
    ELSE str

\* strings.TrimSpace
TrimSpace(str) == TrimRight(TrimLeft(str))

\* "/ipam/ips/" + ip.String()
IPKey(ip) == <<"/ipam/ips/">> \o IPString(ip)
\* (mutant) the range id is left out of the marker's key
MarkerKeyNoRange(r) == <<"/ipam/last_reserved_ip">> \o <<"0">>

\* "/ipam/last_reserved_ip" + rangeID
MarkerKey(r) == <<"/ipam/last_reserved_ip">> \o r

\* the reservation keys Reserve can write: ip.String() of a nil net.IP is "<nil>"
IPKeys == {IPKey(ip) : ip \in IPs \cup {NilIP}}
MarkerKeys == {MarkerKey(r) : r \in Ranges}
Keys == IPKeys \cup MarkerKeys

\* ------------------------------------------------------------- state
VARIABLES
    kv,       \* the etcd key space under /ipam: key -> value, NoVal when absent
    lockQ,    \* the waiters of /ipam/lock in the order of their keys' create revisions
    sess,     \* sess[s]: the lease of s's session is alive at the server
    pc,       \* where each Store's caller stands
    held,     \* held[s]: s.Lock() returned nil and s.Unlock() has not yet
    arg,      \* the locals of the call a Store is inside
    last,     \* the call that returned most recently, and what it returned
    nOps,     \* data calls started so far
    lastOK,   \* history: per range, the address of the latest Reserve that returned true
    granted,  \* history: per address key, the id of the latest Reserve that returned
              \* true and was not deleted since
    conn      \* conn[s]: the client connection New dialed for s is open

vars == <<kv, lockQ, sess, pc, held, arg, last, nOps, lastOK, granted, conn>>

\* done counts the Deletes of a ReleaseByID loop that were answered; quiet,
\* rel and chg are history: no other Store took a data step since the call
\* began, the call began right after a Release of the same address returned
\* nil, and the reservation write of the call changed the key space
NoArg == [id |-> <<>>, ip |-> NilIP, r |-> <<>>, rest |-> <<>>, done |-> 0,
          quiet |-> TRUE, rel |-> FALSE, chg |-> FALSE]

\* ok, err, val: the values returned.  fault: a store request of the call was
\* refused.  n: keys the call deleted (LastReservedIP: len(resp.Kvs)).  left:
\* matching items a ReleaseByID never reached.  quiet, rel: as in NoArg.
NoCall == [op |-> "none", id |-> <<>>, ip |-> NilIP, r |-> <<>>, ok |-> FALSE,
           err |-> FALSE, fault |-> FALSE, val |-> NilIP, n |-> 0, left |-> 0,
           quiet |-> TRUE, rel |-> FALSE]

\* what a call returned; the fields a call does not have keep NoCall's values
Ret(op, id, ip, r, ok, err, fault, val, n) ==
    [NoCall EXCEPT !.op = op, !.id = id, !.ip = ip, !.r = r, !.ok = ok,
                   !.err = err, !.fault = fault, !.val = val, !.n = n]

Init ==
    /\ kv = [k \in Keys |-> NoVal]
    /\ lockQ = <<>>
    /\ sess = [s \in Stores |-> TRUE]
    /\ pc = [s \in Stores |-> "idle"]
    /\ held = [s \in Stores |-> FALSE]
    /\ arg = [s \in Stores |-> NoArg]
    /\ last = NoCall
    /\ nOps = 0
    /\ lastOK = [r \in Ranges |-> NilIP]
    /\ granted = [k \in IPKeys |-> NoVal]
    /\ conn = [s \in Stores |-> TRUE]

\* ------------------------------------------------------------- etcd requests
\* (mutant) a Put that leaves a key that is there alone
PutIfAbsent(k, v) == IF kv[k] = NoVal THEN [kv EXCEPT ![k] = v] ELSE kv

\* clientv3.KV.Put
Put(k, v) == [kv EXCEPT ![k] = v]
\* (mutant) a Delete that takes the whole /ipam prefix with it
DeletePrefix(k) == [kk \in Keys |-> NoVal]

\* clientv3.KV.Delete of one key
Delete(k) == [kv EXCEPT ![k] = NoVal]
\* the Deleted count of a Delete response
Deleted(k) == IF kv[k] = NoVal THEN 0 ELSE 1

\* clientv3.KV.Get("/ipam/ips/", WithPrefix()): the present keys in key order
\* ("<" sorts after every digit)
RECURSIVE ScanFrom(_)
ScanFrom(a) ==
    LET k == IPKey(IF a > NumAddrs THEN NilIP ELSE [len |-> 4, a |-> a])
        item == IF kv[k] = NoVal THEN <<>> ELSE <<[key |-> k, val |-> kv[k]]>>
    IN IF a > NumAddrs THEN item ELSE item \o ScanFrom(a + 1)

GetPrefix == ScanFrom(1)

\* a data step of s is visible to every call of another Store that is under way
Disturb(s) ==
    [t \in Stores |->
        IF t # s /\ pc[t] \in {"reserveMarker", "rbidLoop"}
        THEN [arg[t] EXCEPT !.quiet = FALSE]
        ELSE arg[t]]

CanCall(s) == pc[s] = "idle" /\ nOps < MaxOps

\* ------------------------------------------------------------- Reserve
\* the call that returned last was a Release of this address that returned nil
AfterRelease(ip) ==
    last.op = "Release" /\ ~last.err /\ IPKey(last.ip) = IPKey(ip)

\* Reserve, first Put refused: the error is dropped and (false, nil) returned
ReservePutFailed(s, id, ip, r) ==
    /\ CanCall(s)
    /\ nOps' = nOps + 1
    /\ arg' = Disturb(s)
    /\ last' = [Ret("Reserve", id, ip, r, FALSE, FALSE, TRUE, NilIP, 0)
                  EXCEPT !.rel = AfterRelease(ip)]
    /\ UNCHANGED <<kv, lockQ, sess, pc, held, lastOK, granted, conn>>

\* (mutant) the first Put never reaches the key space
ReservePutLost(s, id, ip, r) ==
    /\ CanCall(s)
    /\ nOps' = nOps + 1
    /\ pc' = [pc EXCEPT ![s] = "reserveMarker"]
    /\ arg' = [Disturb(s) EXCEPT ![s] = [NoArg EXCEPT !.id = id, !.ip = ip, !.r = r,
                                                     !.rel = AfterRelease(ip)]]
    /\ UNCHANGED <<kv, lockQ, sess, held, last, lastOK, granted, conn>>

\* (mutant) the marker is written first, the reservation second
ReservePutMarkerFirst(s, id, ip, r) ==
    /\ CanCall(s)
    /\ nOps' = nOps + 1
    /\ kv' = Put(MarkerKey(r), IPString(ip))
    /\ pc' = [pc EXCEPT ![s] = "reserveMarker"]
    /\ arg' = [Disturb(s) EXCEPT ![s] = [NoArg EXCEPT !.id = id, !.ip = ip, !.r = r]]
    /\ UNCHANGED <<lockQ, sess, held, last, lastOK, granted, conn>>

\* Reserve, first Put: the address key is written whatever it held before
ReservePut(s, id, ip, r) ==
    /\ CanCall(s)
    /\ nOps' = nOps + 1
    /\ kv' = Put(IPKey(ip), TrimSpace(id))
    /\ pc' = [pc EXCEPT ![s] = "reserveMarker"]
    /\ arg' = [Disturb(s) EXCEPT ![s] = [NoArg EXCEPT !.id = id, !.ip = ip, !.r = r,
                                                     !.rel = AfterRelease(ip),
                                                     !.chg = kv' # kv]]
    /\ UNCHANGED <<lockQ, sess, held, last, lastOK, granted, conn>>

\* (mutant) a refused marker write rolls the reservation back
ReserveMarkerFailedRollback(s) ==
    /\ pc[s] = "reserveMarker"
    /\ kv' = Delete(IPKey(arg[s].ip))
    /\ pc' = [pc EXCEPT ![s] = "idle"]
    /\ arg' = [Disturb(s) EXCEPT ![s] = NoArg]
    /\ last' = [Ret("Reserve", arg[s].id, arg[s].ip, arg[s].r, FALSE, TRUE, TRUE, NilIP, 0)
                  EXCEPT !.quiet = arg[s].quiet, !.rel = arg[s].rel]
    /\ UNCHANGED <<lockQ, sess, held, nOps, lastOK, granted, conn>>

\* Reserve, second Put refused: (false, err), the address key stays written
ReserveMarkerFailed(s) ==
    /\ pc[s] = "reserveMarker"
    /\ pc' = [pc EXCEPT ![s] = "idle"]
    /\ arg' = [Disturb(s) EXCEPT ![s] = NoArg]
    /\ last' = [Ret("Reserve", arg[s].id, arg[s].ip, arg[s].r, FALSE, TRUE, TRUE, NilIP, 0)
                  EXCEPT !.quiet = arg[s].quiet, !.rel = arg[s].rel]
    /\ UNCHANGED <<kv, lockQ, sess, held, nOps, lastOK, granted, conn>>

\* Reserve, second Put: the marker of the range is overwritten, (true, nil)
ReserveMarker(s) ==
    /\ pc[s] = "reserveMarker"
    /\ kv' = Put(MarkerKey(arg[s].r), IPString(arg[s].ip))
    /\ pc' = [pc EXCEPT ![s] = "idle"]
    /\ arg' = [Disturb(s) EXCEPT ![s] = NoArg]
    /\ last' = [Ret("Reserve", arg[s].id, arg[s].ip, arg[s].r, TRUE, FALSE, FALSE, NilIP, 0)
                  EXCEPT !.quiet = arg[s].quiet, !.rel = arg[s].rel]
    /\ lastOK' = [lastOK EXCEPT ![arg[s].r] = arg[s].ip]
    /\ granted' = [granted EXCEPT ![IPKey(arg[s].ip)] = TrimSpace(arg[s].id)]
    /\ UNCHANGED <<lockQ, sess, held, nOps, conn>>

\* ------------------------------------------------------------- LastReservedIP
\* the address LastReservedIP(r) answers from the key space `store`: nil when
\* the marker is absent, else the parsed value (nil too when it does not parse)
LastIP(store, r) ==
    IF store[MarkerKey(r)] = NoVal THEN NilIP ELSE ParseIP(store[MarkerKey(r)])

LastReservedIPFailed(s, r) ==
    /\ CanCall(s)
    /\ nOps' = nOps + 1
    /\ arg' = Disturb(s)
    /\ last' = Ret("LastReservedIP", <<>>, NilIP, r, FALSE, TRUE, TRUE, NilIP, 0)
    /\ UNCHANGED <<kv, lockQ, sess, pc, held, lastOK, granted, conn>>

\* the Get answered; n is len(resp.Kvs)
LastReservedIP(s, r) ==
    /\ CanCall(s)
    /\ nOps' = nOps + 1
    /\ arg' = Disturb(s)
    /\ last' = Ret("LastReservedIP", <<>>, NilIP, r, FALSE, FALSE, FALSE, LastIP(kv, r),
                   IF kv[MarkerKey(r)] = NoVal THEN 0 ELSE 1)
    /\ UNCHANGED <<kv, lockQ, sess, pc, held, lastOK, granted, conn>>

\* ------------------------------------------------------------- Release
ReleaseFailed(s, ip) ==
    /\ CanCall(s)
    /\ nOps' = nOps + 1
    /\ arg' = Disturb(s)
    /\ last' = [Ret("Release", <<>>, ip, <<>>, FALSE, TRUE, TRUE, NilIP, 0)
                  EXCEPT !.rel = AfterRelease(ip)]
    /\ UNCHANGED <<kv, lockQ, sess, pc, held, lastOK, granted, conn>>

\* (mutant) deleting a key that is not there is an error
ReleaseStrict(s, ip) ==
    /\ CanCall(s)
    /\ nOps' = nOps + 1
    /\ kv' = Delete(IPKey(ip))
    /\ arg' = Disturb(s)
    /\ last' = [Ret("Release", <<>>, ip, <<>>, FALSE, Deleted(IPKey(ip)) = 0, FALSE, NilIP,
                     Deleted(IPKey(ip)))
                  EXCEPT !.rel = AfterRelease(ip)]
    /\ granted' = [granted EXCEPT ![IPKey(ip)] = NoVal]
    /\ UNCHANGED <<lockQ, sess, pc, held, lastOK, conn>>

\* the Delete answered, whether or not the key was there; n is resp.Deleted
Release(s, ip) ==
    /\ CanCall(s)
    /\ nOps' = nOps + 1
    /\ kv' = Delete(IPKey(ip))
    /\ arg' = Disturb(s)
    /\ last' = [Ret("Release", <<>>, ip, <<>>, FALSE, FALSE, FALSE, NilIP,
                     Deleted(IPKey(ip)))
                  EXCEPT !.rel = AfterRelease(ip)]
    /\ granted' = [granted EXCEPT ![IPKey(ip)] = NoVal]
    /\ UNCHANGED <<lockQ, sess, pc, held, lastOK, conn>>

\* ------------------------------------------------------------- ReleaseByID
\* (mutant) the id is compared as passed, without trimming it
MatchingRaw(kvs, id) ==
    SelectSeq(kvs, LAMBDA item : TrimSpace(item.val) = id)

\* the items of the scan the loop's if lets through
Matching(kvs, id) ==
    SelectSeq(kvs, LAMBDA item : TrimSpace(item.val) = TrimSpace(id))

RbidGetFailed(s, id) ==
    /\ CanCall(s)
    /\ nOps' = nOps + 1
    /\ arg' = Disturb(s)
    /\ last' = Ret("ReleaseByID", id, NilIP, <<>>, FALSE, TRUE, TRUE, NilIP, 0)
    /\ UNCHANGED <<kv, lockQ, sess, pc, held, lastOK, granted, conn>>

\* the prefix Get answered; with no match the loop ends at once and nil is returned
RbidGet(s, id) ==
    /\ CanCall(s)
    /\ nOps' = nOps + 1
    /\ LET todo == Matching(GetPrefix, id)
       IN IF todo = <<>>
          THEN /\ last' = Ret("ReleaseByID", id, NilIP, <<>>, FALSE, FALSE, FALSE, NilIP, 0)
               /\ arg' = Disturb(s)
               /\ pc' = pc
          ELSE /\ last' = last
               /\ arg' = [Disturb(s) EXCEPT ![s] = [NoArg EXCEPT !.id = id, !.rest = todo]]
               /\ pc' = [pc EXCEPT ![s] = "rbidLoop"]
    /\ UNCHANGED <<kv, lockQ, sess, held, lastOK, granted, conn>>

\* a Delete of the loop refused: the error is returned at once, the rest of the
\* matching items is never reached
RbidDeleteFailed(s) ==
    /\ pc[s] = "rbidLoop"
    /\ pc' = [pc EXCEPT ![s] = "idle"]
    /\ arg' = [Disturb(s) EXCEPT ![s] = NoArg]
    /\ last' = [Ret("ReleaseByID", arg[s].id, NilIP, <<>>, FALSE, TRUE, TRUE, NilIP,
                    arg[s].done)
                  EXCEPT !.left = Len(arg[s].rest) - 1, !.quiet = arg[s].quiet]
    /\ UNCHANGED <<kv, lockQ, sess, held, nOps, lastOK, granted, conn>>

\* a Delete of the loop answered: on to the next matching item, nil after the last
RbidDelete(s) ==
    /\ pc[s] = "rbidLoop"
    /\ LET k == TrimSpace(Head(arg[s].rest).key)
           more == Tail(arg[s].rest)
       IN /\ kv' = Delete(k)
          /\ granted' = [granted EXCEPT ![k] = NoVal]
          /\ IF more = <<>>
             THEN /\ pc' = [pc EXCEPT ![s] = "idle"]
                  /\ arg' = [Disturb(s) EXCEPT ![s] = NoArg]
                  /\ last' = [Ret("ReleaseByID", arg[s].id, NilIP, <<>>, FALSE, FALSE,
                                  FALSE, NilIP, arg[s].done + 1)
                                EXCEPT !.quiet = arg[s].quiet]
             ELSE /\ pc' = pc
                  /\ arg' = [Disturb(s) EXCEPT ![s] = [arg[s] EXCEPT !.rest = more,
                                                                   !.done = @ + 1]]
                  /\ last' = last
    /\ UNCHANGED <<lockQ, sess, held, nOps, lastOK, conn>>

\* ------------------------------------------------------------- the mutex
Waiters == {lockQ[i] : i \in 1..Len(lockQ)}
Remove(q, s) == SelectSeq(q, LAMBDA t : t # s)

\* s's key under /ipam/lock exists: it was put and its lease is alive
KeyLive(s) == s \in Waiters /\ sess[s]

\* a key created before s's own still exists
EarlierKey(s) ==
    \E i, j \in 1..Len(lockQ) : i < j /\ lockQ[j] = s /\ sess[lockQ[i]]

\* Lock: the transaction is refused, or the session's lease is gone
LockFailed(s) ==
    /\ pc[s] = "idle" /\ ~held[s]
    /\ UNCHANGED vars

\* (mutant) Lock returns without looking for an older key
LockAcquireUnchecked(s) ==
    /\ pc[s] = "idle" /\ ~held[s] /\ sess[s]
    /\ lockQ' = IF s \in Waiters THEN lockQ ELSE Append(lockQ, s)
    /\ held' = [held EXCEPT ![s] = TRUE]
    /\ UNCHANGED <<kv, sess, pc, arg, last, nOps, lastOK, granted, conn>>

\* Lock: the key is put (or found again) and is the oldest: nil at once
LockAcquire(s) ==
    /\ pc[s] = "idle" /\ ~held[s] /\ sess[s]
    /\ \A t \in Waiters \ {s} : ~sess[t]
    /\ lockQ' = IF s \in Waiters THEN lockQ ELSE Append(lockQ, s)
    /\ held' = [held EXCEPT ![s] = TRUE]
    /\ UNCHANGED <<kv, sess, pc, arg, last, nOps, lastOK, granted, conn>>

\* Lock: the key is put behind an older one; the call blocks in waitDeletes
LockEnqueue(s) ==
    /\ pc[s] = "idle" /\ ~held[s] /\ sess[s]
    /\ \E t \in Waiters \ {s} : sess[t]
    /\ lockQ' = IF s \in Waiters THEN lockQ ELSE Append(lockQ, s)
    /\ pc' = [pc EXCEPT ![s] = "lockWait"]
    /\ UNCHANGED <<kv, sess, held, arg, last, nOps, lastOK, granted, conn>>

\* Lock: every older key is gone, waitDeletes returns and Lock returns nil
LockWake(s) ==
    /\ pc[s] = "lockWait"
    /\ ~EarlierKey(s)
    /\ pc' = [pc EXCEPT ![s] = "idle"]
    /\ held' = [held EXCEPT ![s] = TRUE]
    /\ lockQ' = IF sess[s] THEN lockQ ELSE Remove(lockQ, s)
    /\ UNCHANGED <<kv, sess, arg, last, nOps, lastOK, granted, conn>>

\* Unlock: the Delete of the key is refused, the error is returned
UnlockFailed(s) ==
    /\ pc[s] = "idle" /\ held[s]
    /\ UNCHANGED vars

\* Unlock: the key is deleted
Unlock(s) ==
    /\ pc[s] = "idle" /\ held[s]
    /\ lockQ' = Remove(lockQ, s)
    /\ held' = [held EXCEPT ![s] = FALSE]
    /\ UNCHANGED <<kv, sess, pc, arg, last, nOps, lastOK, granted, conn>>

\* Close returns nil and touches neither the mutex nor the session
Close(s) ==
    /\ pc[s] = "idle"
    /\ pc' = [pc EXCEPT ![s] = "closed"]
    /\ UNCHANGED <<kv, lockQ, sess, held, arg, last, nOps, lastOK, granted, conn>>

\* ------------------------------------------------------------- the environment
\* the process of s dies (or exits after Close): its calls stop where they are,
\* its session stays at the server until the lease runs out
Crash(s) ==
    /\ pc[s] # "dead"
    /\ pc' = [pc EXCEPT ![s] = "dead"]
    /\ held' = [held EXCEPT ![s] = FALSE]
    /\ arg' = [arg EXCEPT ![s] = NoArg]
    /\ lockQ' = IF sess[s] THEN lockQ ELSE Remove(lockQ, s)
    /\ UNCHANGED <<kv, sess, last, nOps, lastOK, granted, conn>>

\* (mutant) the lock key is not bound to the lease: it outlives the session
ExpireKeepsKey(s) ==
    /\ sess[s]
    /\ UNCHANGED vars

\* the lease of s's session runs out (s is dead, or cut off for longer than the
\* TTL): the server revokes the session and deletes the key it holds
Expire(s) ==
    /\ sess[s]
    /\ sess' = [sess EXCEPT ![s] = FALSE]
    /\ lockQ' = IF pc[s] = "lockWait" THEN lockQ ELSE Remove(lockQ, s)
    /\ UNCHANGED <<kv, pc, held, arg, last, nOps, lastOK, granted, conn>>

\* ------------------------------------------------------------- New
\* len(endPoints) == 0: an error before anything is dialed
NewNoEndpoints(s) ==
    /\ pc[s] = "new"
    /\ pc' = [pc EXCEPT ![s] = "newFailed"]
    /\ UNCHANGED <<kv, lockQ, sess, held, arg, last, nOps, lastOK, granted, conn>>

\* clientv3.New returns an error and no client
NewDialFailed(s) ==
    /\ pc[s] = "new"
    /\ pc' = [pc EXCEPT ![s] = "newFailed"]
    /\ UNCHANGED <<kv, lockQ, sess, held, arg, last, nOps, lastOK, granted, conn>>

\* clientv3.New returns a client: the connection is open from here on
NewDial(s) ==
    /\ pc[s] = "new"
    /\ conn' = [conn EXCEPT ![s] = TRUE]
    /\ pc' = [pc EXCEPT ![s] = "newSession"]
    /\ UNCHANGED <<kv, lockQ, sess, held, arg, last, nOps, lastOK, granted>>

\* concurrency.NewSession fails: New returns the error, the client is let go
\* of as it is
NewSessionFailed(s) ==
    /\ pc[s] = "newSession"
    /\ pc' = [pc EXCEPT ![s] = "newFailed"]
    /\ UNCHANGED <<kv, lockQ, sess, held, arg, last, nOps, lastOK, granted, conn>>

\* the session's lease is granted; NewMutex and NewKV cannot fail: the Store
\* is returned
NewSession(s) ==
    /\ pc[s] = "newSession"
    /\ sess' = [sess EXCEPT ![s] = TRUE]
    /\ pc' = [pc EXCEPT ![s] = "idle"]
    /\ UNCHANGED <<kv, lockQ, held, arg, last, nOps, lastOK, granted, conn>>

\* ------------------------------------------------------------- a silent store
\* the next request of s (the first of a new call, or the next of the call it
\* is inside) is sent and never answered: its context is context.TODO(), which
\* has no deadline and is never cancelled, so the call waits
Block(s) ==
    /\ pc[s] \in {"idle", "reserveMarker", "rbidLoop"}
    /\ pc' = [pc EXCEPT ![s] = "blocked"]
    /\ UNCHANGED <<kv, lockQ, sess, held, arg, last, nOps, lastOK, granted, conn>>

\* ------------------------------------------------------------- specification
LockStep(s) ==
    \/ LockFailed(s)
    \/ LockAcquire(s)
    \/ LockEnqueue(s)
    \/ LockWake(s)
    \/ UnlockFailed(s)
    \/ Unlock(s)
    \/ Close(s)
    \/ Crash(s)
    \/ Expire(s)

DataStep(s) ==
    \/ \E id \in IDs, ip \in IPs, r \in Ranges :
          ReservePutFailed(s, id, ip, r) \/ ReservePut(s, id, ip, r)
    \/ ReserveMarkerFailed(s)
    \/ ReserveMarker(s)
    \/ \E r \in Ranges : LastReservedIPFailed(s, r) \/ LastReservedIP(s, r)
    \/ \E ip \in IPs : ReleaseFailed(s, ip) \/ Release(s, ip)
    \/ \E id \in IDs : RbidGetFailed(s, id) \/ RbidGet(s, id)
    \/ RbidDeleteFailed(s)
    \/ RbidDelete(s)

\* data calls only, and the death of a caller in the middle of one (a caller
\* that dies between two calls is one that calls no more)
NextData == \E s \in Callers : DataStep(s) \/ (pc[s] # "idle" /\ Crash(s))

DataSpec == Init /\ [][NextData]_vars

\* the mutex only
NextLock == \E s \in Stores : LockStep(s)

\* what the scheduling is taken to guarantee: a waiter whose turn has come is
\* woken, the lease of a dead process runs out, a caller inside its critical
\* section unlocks, and a process that called Close exits
LockFairness ==
    \A s \in Stores :
        /\ WF_vars(LockWake(s))
        /\ WF_vars(pc[s] = "dead" /\ Expire(s))
        /\ WF_vars(Unlock(s))
        /\ WF_vars(pc[s] = "closed" /\ Crash(s))

LockSpec == Init /\ [][NextLock]_vars /\ LockFairness

\* one Store followed from New on; its caller may pass any net.IP, nil included
Solo == 1

LifeInit ==
    /\ kv = [k \in Keys |-> NoVal]
    /\ lockQ = <<>>
    /\ sess = [s \in Stores |-> FALSE]
    /\ pc = [s \in Stores |-> "new"]
    /\ held = [s \in Stores |-> FALSE]
    /\ arg = [s \in Stores |-> NoArg]
    /\ last = NoCall
    /\ nOps = 0
    /\ lastOK = [r \in Ranges |-> NilIP]
    /\ granted = [k \in IPKeys |-> NoVal]
    /\ conn = [s \in Stores |-> FALSE]

NewStep(s) ==
    \/ NewNoEndpoints(s)
    \/ NewDialFailed(s)
    \/ NewDial(s)
    \/ NewSessionFailed(s)
    \/ NewSession(s)

\* the steps the Store's own code takes
LifeStep(s) ==
    \/ NewStep(s)
    \/ \E id \in IDs, ip \in IPs \cup {NilIP}, r \in Ranges :
          ReservePutFailed(s, id, ip, r) \/ ReservePut(s, id, ip, r)
    \/ ReserveMarkerFailed(s)
    \/ ReserveMarker(s)
    \/ \E r \in Ranges : LastReservedIPFailed(s, r) \/ LastReservedIP(s, r)
    \/ \E ip \in IPs \cup {NilIP} : ReleaseFailed(s, ip) \/ Release(s, ip)
    \/ \E id \in IDs : RbidGetFailed(s, id) \/ RbidGet(s, id)
    \/ RbidDeleteFailed(s)
    \/ RbidDelete(s)

NextLife == LifeStep(Solo) \/ Block(Solo)

\* the caller's thread is scheduled: a step its code can take is taken
LifeFairness == WF_vars(LifeStep(Solo))

LifeSpec == LifeInit /\ [][NextLife]_vars /\ LifeFairness

Next == \E s \in Stores : LockStep(s) \/ DataStep(s)

Spec == Init /\ [][Next]_vars

\* ------------------------------------------------------------- steps, as seen from outside
\* s returns from Reserve after its second Put
ReserveReturns(s) == pc[s] = "reserveMarker" /\ pc'[s] = "idle"

\* a one-request call named op is made and returns in this step
Returns(op) == nOps' = nOps + 1 /\ pc' = pc /\ last'.op = op

\* s takes a step of its ReleaseByID loop
RbidLoopStep(s) ==
    /\ pc[s] = "rbidLoop"
    /\ pc'[s] = "idle" \/ (pc'[s] = "rbidLoop" /\ arg'[s].rest # arg[s].rest)

\* s is between a Lock that returned nil and its Unlock
InCS(s) == held[s] /\ pc[s] # "dead"

\* the value of reservation key k belongs to container id
OwnedBy(store, k, id) == TrimSpace(store[k]) = TrimSpace(id)

\* ------------------------------------------------------------- claims
\* C1.  No double allocation: a Reserve returns true for an address only when
\* no other container holds it, that is when no earlier Reserve for it returned
\* true for another id without a Release or a matching ReleaseByID since.
C1_NoDoubleAllocation ==
    [][\A s \in Stores :
          (ReserveReturns(s) /\ last'.ok)
              => granted[IPKey(arg[s].ip)] \in {NoVal, TrimSpace(arg[s].id)}]_vars

\* C2 as claimed.  At most one Store is inside its critical section, also when
\* a holder is cut off and its session is revoked after the TTL.
C2_MutualExclusion ==
    \A s, t \in Stores : (s # t /\ InCS(s)) => ~InCS(t)

\* C2 as amended.  At most one Store whose session is alive is inside its
\* critical section; a dead holder's lock passes on only with its session.
C2_MutualExclusionOfLiveSessions ==
    \A s, t \in Stores :
        /\ (s # t /\ InCS(s) /\ sess[s]) => ~(InCS(t) /\ sess[t])
        /\ (s # t /\ pc[s] = "dead" /\ KeyLive(s) /\ lockQ[1] = s)
              => ~(InCS(t) /\ sess[t])

\* a holder was cut off, its session was revoked, and another Store entered
\* its critical section while the first is still inside its own
C2_Witness ==
    \E s, t \in Stores :
        s # t /\ InCS(s) /\ ~sess[s] /\ InCS(t) /\ sess[t] /\ KeyLive(t)

\* C3.  No deadlock on holder death: once the holder of the lock is dead with
\* its key still in place, every Store blocked in Lock eventually holds the
\* lock (or is dead itself).
C3_NoDeadlockOnHolderDeath ==
    \A h, w \in Stores :
        (pc[h] = "dead" /\ KeyLive(h) /\ lockQ[1] = h /\ pc[w] = "lockWait")
            ~> (held[w] \/ pc[w] = "dead")

\* the holder died inside its critical section and a live Store is blocked behind it
C3_Witness ==
    \E h, w \in Stores :
        pc[h] = "dead" /\ KeyLive(h) /\ lockQ[1] = h /\ pc[w] = "lockWait" /\ sess[w]

\* C4.  ReleaseByID(id), undisturbed and with no request refused, deletes the
\* reservations whose value equals id after trimming and nothing else, and
\* returns nil, also when id owns nothing.
C4_ReleaseByIDFrame ==
    [][/\ (Returns("ReleaseByID") /\ ~last'.fault)
            => /\ ~last'.err
               /\ kv' = kv
               /\ \A k \in IPKeys : ~OwnedBy(kv, k, last'.id)
       /\ \A s \in Stores :
            /\ (pc[s] = "idle" /\ pc'[s] = "rbidLoop") => kv' = kv
            /\ (RbidLoopStep(s) /\ arg[s].quiet /\ ~(pc'[s] = "idle" /\ last'.fault))
                 => \A k \in Keys :
                        kv'[k] # kv[k]
                            => k \in IPKeys /\ OwnedBy(kv, k, arg[s].id) /\ kv'[k] = NoVal
            /\ (RbidLoopStep(s) /\ arg[s].quiet /\ pc'[s] = "idle" /\ ~last'.fault)
                 => /\ ~last'.err
                    /\ \A k \in IPKeys : ~OwnedBy(kv', k, arg[s].id)]_vars

\* an undisturbed ReleaseByID returned nil after deleting something while
\* another container's reservation is still there
C4_Witness ==
    /\ last.op = "ReleaseByID" /\ ~last.err /\ last.quiet /\ last.n >= 1
    /\ \E k \in IPKeys : kv[k] # NoVal /\ ~OwnedBy(kv, k, last.id)
    /\ \A k \in IPKeys : ~OwnedBy(kv, k, last.id)

\* C5.  ReleaseByID goes on past a refused Delete: when it returns, it has
\* tried to delete every matching reservation of its scan.
C5_ReleaseByIDContinues ==
    last.op = "ReleaseByID" => last.left = 0

\* C6.  LastReservedIP(r), when its Get is answered, returns nil before any
\* Reserve for r returned true, and otherwise the address of the latest Reserve
\* for r that returned true, whatever was reserved in other ranges.
C6_LastReservedIP ==
    [][(Returns("LastReservedIP") /\ ~last'.fault)
          => /\ ~last'.err
             /\ last'.val = To16(lastOK[last'.r])]_vars

\* LastReservedIP returned the address reserved in its range while another
\* address was the last one reserved in another range
C6_Witness ==
    /\ last.op = "LastReservedIP" /\ ~last.err /\ last.val # NilIP
    /\ \E r \in Ranges :
          r # last.r /\ lastOK[r] # NilIP /\ To16(lastOK[r]) # last.val

\* C7.  A Reserve that begins right after a Release of the same address
\* returned nil, is not disturbed and has no request refused, returns true and
\* leaves the address owned by its id.
C7_ReleaseThenReserve ==
    [][/\ (Returns("Reserve") /\ last'.rel) => last'.fault
       /\ \A s \in Stores :
            (ReserveReturns(s) /\ arg[s].rel /\ arg[s].quiet /\ ~last'.fault)
                => /\ last'.ok /\ ~last'.err
                   /\ OwnedBy(kv', IPKey(arg[s].ip), arg[s].id)
                   /\ kv'[IPKey(arg[s].ip)] # NoVal]_vars

\* such a Reserve returned true for an address that was reserved before the Release
C7_Witness ==
    /\ last.op = "Reserve" /\ last.ok /\ last.rel /\ last.quiet
    /\ OwnedBy(kv, IPKey(last.ip), last.id)

\* C8.  Release whose Delete is answered returns nil and leaves exactly the
\* address's key absent; on an address that is not reserved it changes nothing.
C8_ReleaseIdempotent ==
    [][(Returns("Release") /\ ~last'.fault)
          => /\ ~last'.err
             /\ kv' = [kv EXCEPT ![IPKey(last'.ip)] = NoVal]
             /\ kv[IPKey(last'.ip)] = NoVal => kv' = kv]_vars

\* a second Release in a row of the same address returned nil with nothing to delete
C8_Witness ==
    last.op = "Release" /\ last.rel /\ ~last.err /\ last.n = 0

\* C9.  When Reserve has written the reservation and then dies or has its
\* marker write refused, nothing is rolled back: the key space is as it was, an
\* undisturbed reservation still names the id, and LastReservedIP(r) answers
\* what it answered before.
C9_ReserveCrashConsistent ==
    [][\A s \in Stores :
          (pc[s] = "reserveMarker" /\ (pc'[s] = "dead" \/ (pc'[s] = "idle" /\ last'.fault)))
              => /\ kv'[IPKey(arg[s].ip)] = kv[IPKey(arg[s].ip)]
                 /\ arg[s].quiet => kv'[IPKey(arg[s].ip)] = TrimSpace(arg[s].id)
                 /\ LastIP(kv', arg[s].r) = LastIP(kv, arg[s].r)]_vars

\* a Reserve returned an error from its marker write: the reservation is there,
\* the marker of its range does not name the address
C9_Witness ==
    /\ last.op = "Reserve" /\ last.err /\ last.quiet
    /\ kv[IPKey(last.ip)] = TrimSpace(last.id)
    /\ LastIP(kv, last.r) # To16(last.ip)

\* C10.  Close releases the lock: a Store that has called Close holds no lock key.
C10_CloseReleasesLock ==
    \A s \in Stores : pc[s] = "closed" => ~KeyLive(s)

\* C11.  LastReservedIP does not take a corrupted marker for a missing one:
\* when its Get is answered with a value that is no address, it returns an error.
C11_CorruptedMarkerIsError ==
    (last.op = "LastReservedIP" /\ ~last.fault /\ last.n = 1 /\ last.val = NilIP)
        => last.err

\* C12.  No connection leak on failed construction: when New has returned an
\* error, the connection it dialed is closed.
C12_NoConnectionLeak ==
    \A s \in Stores : pc[s] = "newFailed" => ~conn[s]

\* C13.  Bounded blocking: a call whose request the store never answers does
\* not wait forever, it comes back (with a timeout error).
C13_BoundedBlocking ==
    \A s \in Stores : (pc[s] = "blocked") ~> (pc[s] # "blocked")

\* C14.  Reserve surfaces store failures: a Reserve one of whose Puts was
\* refused returns an error.
C14_ReserveSurfacesFailures ==
    (last.op = "Reserve" /\ last.fault) => last.err

\* C15.  Unlocked Reserve is last-writer-wins: the reservation write of a
\* Reserve makes its id the owner whatever the key held, the id stays the owner
\* until another Store steps in, and every Reserve with no request refused
\* returns true without touching a reservation again, so of two overlapping
\* Reserves of one address both return true and the later write stays.
C15_UnlockedReserveLastWriterWins ==
    [][\A s \in Stores :
          /\ (pc'[s] = "reserveMarker" /\ arg'[s].quiet)
                => kv'[IPKey(arg'[s].ip)] = TrimSpace(arg'[s].id)
          /\ (ReserveReturns(s) /\ ~last'.fault)
                => /\ last'.ok /\ ~last'.err
                   /\ \A k \in IPKeys : kv'[k] = kv[k]]_vars

\* a Reserve returned true while the address holds the id that another Store
\* wrote during the call, and a Reserve of that address in another range
\* returned true as well
C15_Witness ==
    /\ last.op = "Reserve" /\ last.ok /\ ~last.quiet
    /\ kv[IPKey(last.ip)] \notin {NoVal, TrimSpace(last.id)}
    /\ \E r \in Ranges : r # last.r /\ lastOK[r] # NilIP /\ IPKey(lastOK[r]) = IPKey(last.ip)

\* C16.  ReleaseByID never frees another container's address: every
\* reservation a step of its loop deletes is owned by its id when it is deleted,
\* whatever other Stores did since the scan.
C16_ReleaseByIDDeletesOnlyOwn ==
    [][\A s \in Stores :
          RbidLoopStep(s)
              => \A k \in IPKeys : kv'[k] # kv[k] => OwnedBy(kv, k, arg[s].id)]_vars

\* C17.  Reserve's result agrees with the stored state: a Reserve that returns
\* false, with or without an error, has changed no reservation.
C17_ReserveResultAgrees ==
    [][/\ (Returns("Reserve") /\ ~last'.ok) => kv' = kv
       /\ \A s \in Stores :
            (ReserveReturns(s) /\ ~last'.ok)
                => /\ ~arg[s].chg
                   /\ \A k \in IPKeys : kv'[k] = kv[k]]_vars

C19_Frame ==
    [][/\ (Returns("LastReservedIP") \/ Returns("ReleaseByID") \/ Returns("Reserve"))
            => kv' = kv
       /\ Returns("Release")
            => \A k \in Keys \ {IPKey(last'.ip)} : kv'[k] = kv[k]
       /\ \A s \in Stores :
            /\ (pc[s] = "idle" /\ pc'[s] = "rbidLoop") => kv' = kv
            /\ RbidLoopStep(s) => \A k \in MarkerKeys : kv'[k] = kv[k]
            /\ (pc[s] = "idle" /\ pc'[s] = "reserveMarker")
                 => \A k \in Keys \ {IPKey(arg'[s].ip), MarkerKey(arg'[s].r)} :
                        kv'[k] = kv[k]
            /\ ReserveReturns(s)
                 => \A k \in Keys \ {IPKey(arg[s].ip), MarkerKey(arg[s].r)} :
                        kv'[k] = kv[k]]_vars

\* a Release deleted the reservation the marker of a range points at, and the
\* marker still points at it while another reservation is still there
C19_Witness ==
    /\ last.op = "Release" /\ ~last.err /\ last.n = 1
    /\ kv[IPKey(last.ip)] = NoVal
    /\ \E r \in Ranges : kv[MarkerKey(r)] = IPString(last.ip)
    /\ \E k \in IPKeys : kv[k] # NoVal

====
